---- MODULE Spec2Model ----
(***************************************************************************)
(* Order creation and inventory decrement of the MALABRO eShop backend.    *)
(*                                                                         *)
(* The database (products, orders with their items, inventory_ledger) is   *)
(* the committed state.  Every HTTP request owns one SQLAlchemy Session    *)
(* (app/db/session.py): an identity map of the rows it has loaded and the  *)
(* writes it has not committed yet.  Money is counted in hundredths.       *)
(*                                                                         *)
(* Spec is order creation beside catalogue edits, SpecNotify adds the      *)
(* background admin notification, SpecAdmin puts the back office (order    *)
(* status updates, price edits, product deletion) beside one order         *)
(* creation.  SpecSolo is order creation with nothing beside it and every  *)
(* billing form, SpecValidate is validate_items alone on a fixed           *)
(* catalogue, SpecLive takes the reference loop one statement at a time    *)
(* under a fair scheduler.                                                 *)
(***************************************************************************)
EXTENDS Integers, Sequences, FiniteSets, TLC

\* ---------------------------------------------------------------- bounds
MaxProducts == 1
MaxStock == 2
MaxQty == 2
MaxLines == 2
NumRequests == 2
NumRefs == 2
MaxAdminUpdates == 1

\* amounts the clients and the catalogue use, in hundredths
CatalogPrice == 1000
TamperedPrice == 950
TamperedSubtotal == 1
RaisedPrice == 1200

\* ------------------------------------------------------- program constants
\* abs(product.price - item.product_price) > 0.01
PriceTolerance == 1

Requests == 1..NumRequests
ProductIds == 1..MaxProducts
Refs == 1..NumRefs

VARIABLES
    products,     \* products table: id -> [stock_quantity, price]
    orders,       \* orders table with the order_items of each order
    ledger,       \* inventory_ledger table, in insertion order
    orderSeq,     \* last value handed out by the orders.id sequence
    adminOps,     \* number of admin product updates done
    pc,           \* position of each order-creation request
    cart,         \* OrderCreate.items of each request
    idx,          \* cart line the request's loop is at
    session,      \* identity map of the request's Session: product rows loaded
    txn,          \* uncommitted writes of the request's Session
    tasks,        \* background task of each request: the admin notification
    reply,        \* the last status-update request and its HTTP status code
    form,         \* OrderBase fields of each request: shipping and billing
    detail        \* detail of the 400 of each request: the validation error

vars == <<products, orders, ledger, orderSeq, adminOps, pc, cart, idx, session, txn,
          tasks, reply, form, detail>>

\* ------------------------------------------------------------------ helpers
RECURSIVE SumSubtotals(_)
SumSubtotals(items) ==
    IF items = <<>> THEN 0
    ELSE Head(items).subtotal + SumSubtotals(Tail(items))

RECURSIVE SumChanges(_, _)
SumChanges(rows, p) ==
    IF rows = <<>> THEN 0
    ELSE (IF Head(rows).product_id = p THEN Head(rows).quantity_change ELSE 0)
         + SumChanges(Tail(rows), p)

Abs(x) == IF x < 0 THEN -x ELSE x

EmptyTxn == [order_reference |-> 0, order_id |-> 0, total_amount |-> 0,
             items |-> <<>>, ledger |-> <<>>]

\* a nullable column holding no value
NULL == "null"

\* the billing fields of OrderBase: absent, empty or a text each
OrderForms ==
    [billing_address : {NULL, "", "billing_address"},
     billing_city : {NULL, "", "billing_city"},
     billing_country : {NULL, "", "billing_country"}]

\* a request that leaves its billing fields out
BillingOmitted ==
    [billing_address |-> NULL, billing_city |-> NULL, billing_country |-> NULL]

\* a billing field stored as the request gave it
AsGiven(a, b) == a

\* Python's a or b on an optional string: b when a is None or empty
OrElse(a, b) == IF a = NULL \/ a = "" THEN b ELSE a

\* validate_items has returned no error message
NoError == [line |-> 0, error |-> "none"]

\* no status-update request has been answered yet
NoReply == [endpoint |-> "none", order_id |-> 0, status |-> "none", status_code |-> 0]

\* a cart line as the client sends it (OrderItemCreate)
HonestLines ==
    [product_id : ProductIds, product_price : {CatalogPrice},
     quantity : 1..MaxQty, subtotal : {0}]

HonestLine(l) == [l EXCEPT !.subtotal = l.product_price * l.quantity]

HonestCarts ==
    UNION { { [i \in 1..n |-> HonestLine(f[i])] : f \in [1..n -> HonestLines] }
            : n \in 1..MaxLines }

\* single-line carts whose asserted price or subtotal is not the catalogue's
TamperedCarts ==
    { << [product_id |-> 1, product_price |-> pr, quantity |-> q, subtotal |-> s] >> :
        pr \in {CatalogPrice, TamperedPrice}, q \in {MaxQty}, s \in {TamperedSubtotal} }

\* single-line carts asking for a negative quantity at the catalogue's price
NonPositiveCarts ==
    { << HonestLine([product_id |-> 1, product_price |-> CatalogPrice,
                     quantity |-> q, subtotal |-> 0]) >> : q \in {-1} }

Carts == HonestCarts \cup TamperedCarts \cup NonPositiveCarts

\* ---------------------------------------------------------------- catalogue
\* last value handed out by the products.id sequence: every product ever
\* created has its InitialStock entry
ProductSeq ==
    Cardinality({ i \in 1..Len(ledger) : ledger[i].change_type = "InitialStock" })

\* CRUDBase.create for a Product: the row and its InitialStock ledger entry
product_create(stock, price) ==
    /\ products' = [p \in DOMAIN products \cup {ProductSeq + 1} |->
                      IF p \in DOMAIN products THEN products[p]
                      ELSE [stock_quantity |-> stock, price |-> price]]
    /\ ledger' = Append(ledger,
                   [product_id |-> ProductSeq + 1,
                    change_type |-> "InitialStock",
                    quantity_change |-> stock, new_quantity |-> stock,
                    order_id |-> 0])

\* POST /products
create_product ==
    /\ ProductSeq < MaxProducts
    /\ \E stock \in 0..MaxStock : product_create(stock, CatalogPrice)
    /\ UNCHANGED <<orders, orderSeq, adminOps, pc, cart, idx, session, txn, tasks, reply>>
    /\ UNCHANGED <<form, detail>>

\* PUT /admin/products/{product_id} with a stock_quantity field
update_product ==
    /\ adminOps < MaxAdminUpdates
    /\ \E p \in DOMAIN products, stock \in 0..MaxStock :
          products' = [products EXCEPT ![p].stock_quantity = stock]
    /\ adminOps' = adminOps + 1
    /\ UNCHANGED <<orders, ledger, orderSeq, pc, cart, idx, session, txn, tasks, reply>>
    /\ UNCHANGED <<form, detail>>

\* ----------------------------------------------------------- order creation
\* POST /orders arrives: the request gets its Session (get_db)
create_order(r) ==
    /\ pc[r] = "idle"
    /\ \A q \in 1..(r - 1) : pc[q] # "idle"
    /\ \E c \in Carts : cart' = [cart EXCEPT ![r] = c]
    /\ pc' = [pc EXCEPT ![r] = "validate"]
    /\ idx' = [idx EXCEPT ![r] = 1]
    /\ UNCHANGED <<products, orders, ledger, orderSeq, adminOps, session, txn, tasks, reply>>
    /\ UNCHANGED <<form, detail>>

\* Session.query(Product).filter(Product.id == p).first() on a row that
\* exists: a row already in the identity map keeps the attributes it was
\* loaded with, a new one is read from the committed table
Load(r, p) ==
    IF p \in DOMAIN session[r] THEN session[r]
    ELSE [q \in DOMAIN session[r] \cup {p} |->
            IF q = p THEN products[p] ELSE session[r][q]]

\* a validation that looks at the stock before the price
LineErrorStockFirst(product, item) ==
    IF product.stock_quantity < item.quantity THEN "stock"
    ELSE IF Abs(product.price - item.product_price) > PriceTolerance THEN "price"
    ELSE "ok"

\* a validation that trusts the asserted price
LineErrorStockOnly(product, item) ==
    IF product.stock_quantity < item.quantity THEN "stock" ELSE "ok"

\* the price and stock checks of one cart line in validate_items
LineError(product, item) ==
    IF Abs(product.price - item.product_price) > PriceTolerance THEN "price"
    ELSE IF product.stock_quantity < item.quantity THEN "stock"
    ELSE "ok"

\* a validation that sets aside the stock of every line it accepts
validate_items_reserving(r) ==
    /\ pc[r] = "validate"
    /\ LET item == cart[r][idx[r]]
           p == item.product_id
       IN IF p \notin DOMAIN products \/ LineError(products[p], item) # "ok"
          THEN /\ pc' = [pc EXCEPT ![r] = "rejected"]
               /\ detail' = [detail EXCEPT ![r] =
                      [line |-> idx[r],
                       error |-> IF p \notin DOMAIN products THEN "not_found"
                                 ELSE LineError(products[p], item)]]
               /\ UNCHANGED <<idx, products>>
          ELSE /\ products' = [products EXCEPT ![p].stock_quantity = @ - item.quantity]
               /\ UNCHANGED detail
               /\ IF idx[r] = Len(cart[r])
                  THEN /\ pc' = [pc EXCEPT ![r] = "genref"]
                       /\ idx' = [idx EXCEPT ![r] = 1]
                  ELSE /\ idx' = [idx EXCEPT ![r] = idx[r] + 1]
                       /\ UNCHANGED pc
    /\ UNCHANGED <<orders, ledger, orderSeq, adminOps, cart, session, txn, tasks, reply>>
    /\ UNCHANGED form

\* one iteration of the loop of validate_items; an error ends the request
\* with a 400 and get_db closes the Session
validate_items(r) ==
    /\ pc[r] = "validate"
    /\ LET item == cart[r][idx[r]]
           p == item.product_id
       IN IF p \notin DOMAIN products
          THEN /\ pc' = [pc EXCEPT ![r] = "rejected"]
               /\ detail' = [detail EXCEPT ![r] = [line |-> idx[r], error |-> "not_found"]]
               /\ session' = [session EXCEPT ![r] = << >>]
               /\ UNCHANGED idx
          ELSE LET s == Load(r, p)
               IN IF LineError(s[p], item) # "ok"
                  THEN /\ pc' = [pc EXCEPT ![r] = "rejected"]
                       /\ detail' = [detail EXCEPT ![r] =
                              [line |-> idx[r], error |-> LineError(s[p], item)]]
                       /\ session' = [session EXCEPT ![r] = << >>]
                       /\ UNCHANGED idx
                  ELSE /\ session' = [session EXCEPT ![r] = s]
                       /\ UNCHANGED detail
                       /\ IF idx[r] = Len(cart[r])
                          THEN /\ pc' = [pc EXCEPT ![r] = "genref"]
                               /\ idx' = [idx EXCEPT ![r] = 1]
                          ELSE /\ idx' = [idx EXCEPT ![r] = idx[r] + 1]
                               /\ UNCHANGED pc
    /\ UNCHANGED <<products, orders, ledger, orderSeq, adminOps, cart, txn, tasks, reply>>
    /\ UNCHANGED form

\* a total that trusts no client subtotal
total_amount_recomputed(items) ==
    SumSubtotals([i \in 1..Len(items) |->
        [items[i] EXCEPT !.subtotal = items[i].product_price * items[i].quantity]])

\* total_amount = sum(item.subtotal for item in obj_in.items)
total_amount(items) == SumSubtotals(items)

\* db.query(Order).filter(Order.order_reference == ref).first()
ReferenceExists(ref) == \E i \in 1..Len(orders) : orders[i].order_reference = ref

\* one iteration of the loop of _generate_order_reference; the total is
\* computed just before it
generate_order_reference(r) ==
    /\ pc[r] = "genref"
    /\ \E ref \in Refs :
          IF ReferenceExists(ref)
          THEN UNCHANGED <<pc, txn>>
          ELSE /\ txn' = [txn EXCEPT ![r].order_reference = ref,
                                     ![r].total_amount = total_amount(cart[r])]
               /\ pc' = [pc EXCEPT ![r] = "flush"]
    /\ UNCHANGED <<products, orders, ledger, orderSeq, adminOps, cart, idx, session, tasks, reply>>
    /\ UNCHANGED <<form, detail>>

\* the first two lines of the loop of _generate_order_reference: a reference
\* is drawn (the total, computed once before the loop, is kept with it)
draw_order_reference(r) ==
    /\ pc[r] = "genref"
    /\ \E ref \in Refs :
          txn' = [txn EXCEPT ![r].order_reference = ref,
                             ![r].total_amount = total_amount(cart[r])]
    /\ pc' = [pc EXCEPT ![r] = "checkref"]
    /\ UNCHANGED <<products, orders, ledger, orderSeq, adminOps, cart, idx, session,
                   tasks, reply, form, detail>>

\* the last two lines of the loop: the reference is returned unless an order
\* holds it, and the loop goes round again if one does
check_order_reference(r) ==
    /\ pc[r] = "checkref"
    /\ pc' = [pc EXCEPT ![r] =
                IF ReferenceExists(txn[r].order_reference) THEN "genref" ELSE "flush"]
    /\ UNCHANGED <<products, orders, ledger, orderSeq, adminOps, cart, idx, session,
                   txn, tasks, reply, form, detail>>

\* products the Session has decremented
Dirty(r) == { txn[r].ledger[i].product_id : i \in 1..Len(txn[r].ledger) }

\* the UPDATE statements of a flush: the Session's value replaces the row's
FlushProducts(r) ==
    [p \in DOMAIN products |->
        IF p \in Dirty(r)
        THEN [products[p] EXCEPT !.stock_quantity = session[r][p].stock_quantity]
        ELSE products[p]]

\* the Order row with its OrderItem rows
NewOrder(r) ==
    [id |-> txn[r].order_id, order_reference |-> txn[r].order_reference,
     total_amount |-> txn[r].total_amount, status |-> "pending",
     payment_method |-> "wave_qr",
     payment_confirmed_at |-> NULL, payment_notes |-> NULL,
     shipping_address |-> "shipping_address",
     shipping_city |-> "shipping_city",
     shipping_country |-> "shipping_country",
     billing_address |-> OrElse(form[r].billing_address, "shipping_address"),
     billing_city |-> OrElse(form[r].billing_city, "shipping_city"),
     billing_country |-> OrElse(form[r].billing_country, "shipping_country"),
     items |-> txn[r].items]

\* a close that would keep what the Session had written
CloseCommits(r) ==
    /\ products' = FlushProducts(r)
    /\ ledger' = ledger \o txn[r].ledger
    /\ orders' = IF txn[r].order_id = 0 THEN orders ELSE Append(orders, NewOrder(r))
    /\ txn' = [txn EXCEPT ![r].items = << >>, ![r].ledger = << >>]
    /\ session' = [session EXCEPT ![r] = << >>]

\* get_db closes the Session: what was not committed is rolled back
Rollback(r) ==
    /\ txn' = [txn EXCEPT ![r].items = << >>, ![r].ledger = << >>]
    /\ session' = [session EXCEPT ![r] = << >>]
    /\ UNCHANGED <<products, orders, ledger>>

\* another Session has inserted this reference and not committed yet: the
\* INSERT waits for it
ReferenceLocked(r, ref) ==
    \E o \in Requests \ {r} :
        pc[o] \in {"items", "commit"} /\ txn[o].order_reference = ref

\* a table without the unique index
NoUniqueIndex(ref) == FALSE

\* order_reference = Column(String(20), unique=True, index=True)
UniqueViolation(ref) == ReferenceExists(ref)

\* db.add(db_obj); db.flush(): INSERT INTO orders
flush_order(r) ==
    /\ pc[r] = "flush"
    /\ ~ReferenceLocked(r, txn[r].order_reference)
    /\ orderSeq' = orderSeq + 1
    /\ IF UniqueViolation(txn[r].order_reference)
       THEN /\ pc' = [pc EXCEPT ![r] = "failed"]
            /\ Rollback(r)
            /\ UNCHANGED idx
       ELSE /\ txn' = [txn EXCEPT ![r].order_id = orderSeq + 1]
            /\ pc' = [pc EXCEPT ![r] = "items"]
            /\ idx' = [idx EXCEPT ![r] = 1]
            /\ UNCHANGED <<products, orders, ledger, session>>
    /\ UNCHANGED <<adminOps, cart, tasks, reply>>
    /\ UNCHANGED <<form, detail>>

\* crud.inventory_ledger.create: the entry joins the unit of work
inventory_ledger_create(pending, row) == Append(pending, row)

\* an entry that records the stock before the sale
SaleEntryOriginalStock(r, item, new_quantity) ==
    [product_id |-> item.product_id, change_type |-> "Sale",
     quantity_change |-> -item.quantity,
     new_quantity |-> new_quantity + item.quantity,
     order_id |-> txn[r].order_id]

\* InventoryLedgerCreate(product_id, change_type="Sale", ...)
SaleEntry(r, item, new_quantity) ==
    [product_id |-> item.product_id, change_type |-> "Sale",
     quantity_change |-> -item.quantity, new_quantity |-> new_quantity,
     order_id |-> txn[r].order_id]

\* one iteration of the item loop of create_with_owner
process_item(r) ==
    /\ pc[r] = "items"
    /\ LET item == cart[r][idx[r]]
           p == item.product_id
       IN /\ IF p \in DOMAIN products
             THEN LET s == Load(r, p)
                      new_quantity == s[p].stock_quantity - item.quantity
                  IN /\ session' = [session EXCEPT ![r] =
                                      [s EXCEPT ![p].stock_quantity = new_quantity]]
                     /\ txn' = [txn EXCEPT
                          ![r].ledger = inventory_ledger_create(@, SaleEntry(r, item, new_quantity)),
                          ![r].items = Append(@, item)]
             ELSE /\ txn' = [txn EXCEPT ![r].items = Append(@, item)]
                  /\ UNCHANGED session
          /\ IF idx[r] = Len(cart[r])
             THEN /\ pc' = [pc EXCEPT ![r] = "commit"]
                  /\ UNCHANGED idx
             ELSE /\ idx' = [idx EXCEPT ![r] = idx[r] + 1]
                  /\ UNCHANGED pc
    /\ UNCHANGED <<products, orders, ledger, orderSeq, adminOps, cart, tasks, reply>>
    /\ UNCHANGED <<form, detail>>

\* db.commit() of create_with_owner, then create_order queues the admin
\* notification and returns the 200 response
\* a product deleted since it was decremented makes the commit's UPDATE match
\* no row (StaleDataError): the request fails and the Session is closed
commit_order(r) ==
    /\ pc[r] = "commit"
    /\ IF Dirty(r) \subseteq DOMAIN products
       THEN /\ tasks' = [tasks EXCEPT ![r] = "queued"]
            /\ products' = FlushProducts(r)
            /\ orders' = Append(orders, NewOrder(r))
            /\ ledger' = ledger \o txn[r].ledger
            /\ pc' = [pc EXCEPT ![r] = "done"]
            /\ session' = [session EXCEPT ![r] = << >>]
            /\ txn' = [txn EXCEPT ![r].items = << >>, ![r].ledger = << >>]
       ELSE /\ pc' = [pc EXCEPT ![r] = "failed"]
            /\ Rollback(r)
            /\ UNCHANGED tasks
    /\ UNCHANGED <<orderSeq, adminOps, cart, idx, reply>>
    /\ UNCHANGED <<form, detail>>

\* a storage call of create_with_owner raises (storage unavailable, request
\* cancelled): the exception leaves the endpoint and get_db closes the Session
abort_order(r) ==
    /\ pc[r] \in {"items", "commit"}
    /\ pc' = [pc EXCEPT ![r] = "failed"]
    /\ Rollback(r)
    /\ UNCHANGED <<orderSeq, adminOps, cart, idx, tasks, reply>>
    /\ UNCHANGED <<form, detail>>

\* -------------------------------------------------------------- notification
\* a notification whose SMTP failure reaches the request that queued it
send_admin_notification_email_raising(r) ==
    /\ tasks[r] = "queued"
    /\ \E outcome \in {"sent", "failed"} :
          /\ tasks' = [tasks EXCEPT ![r] = outcome]
          /\ pc' = [pc EXCEPT ![r] = IF outcome = "failed" THEN "failed" ELSE @]
    /\ UNCHANGED <<products, orders, ledger, orderSeq, adminOps, cart, idx,
                   session, txn, reply>>
    /\ UNCHANGED <<form, detail>>

\* the background task send_admin_notification_email(order_id): it runs once
\* the response is sent, reads the order through a Session of its own and
\* swallows every exception of the SMTP exchange
send_admin_notification_email(r) ==
    /\ tasks[r] = "queued"
    /\ \E outcome \in {"sent", "failed"} : tasks' = [tasks EXCEPT ![r] = outcome]
    /\ UNCHANGED <<products, orders, ledger, orderSeq, adminOps, pc, cart, idx,
                   session, txn, reply>>
    /\ UNCHANGED <<form, detail>>

\* --------------------------------------------------------------- back office
\* a list of statuses that lets every requested value through
valid_statuses_open ==
    {"pending", "paid", "shipped", "delivered", "cancelled", "refunded"}

\* valid_statuses of the admin endpoint
valid_statuses == {"pending", "paid", "shipped", "delivered", "cancelled"}

\* the status values a status-update request may carry
RequestedStatuses == valid_statuses \cup {"refunded"}

\* payment_notes of a status-update request: absent or a text
RequestedNotes == {NULL, "verified"}

\* order ids a status-update request may name
OrderIds == 1..NumRequests

\* CRUDBase.get: the positions of the orders with this id (one or none)
get(id) == { i \in 1..Len(orders) : orders[i].id = id }

\* an update that stamps nothing
update_status_unstamped(i, status, payment_notes) ==
    orders' = [orders EXCEPT ![i] =
        [@ EXCEPT !.status = status,
                  !.payment_notes = IF payment_notes # NULL THEN payment_notes ELSE @]]

\* an update that refunds the order it cancels
update_status_refunding(i, status, payment_notes) ==
    orders' = [orders EXCEPT ![i] =
        [@ EXCEPT !.status = status,
                  !.payment_notes = IF payment_notes # NULL THEN payment_notes ELSE @,
                  !.payment_confirmed_at = IF status = "paid" THEN "utcnow" ELSE @,
                  !.total_amount = IF status = "cancelled" THEN 0 ELSE @]]

\* an update that clears the stamp when the new status is not paid
update_status_clearing(i, status, payment_notes) ==
    orders' = [orders EXCEPT ![i] =
        [@ EXCEPT !.status = status,
                  !.payment_notes = IF payment_notes # NULL THEN payment_notes ELSE @,
                  !.payment_confirmed_at = IF status = "paid" THEN "utcnow" ELSE NULL]]

\* CRUDOrder.update_status on the order at position i, committed
update_status(i, status, payment_notes) ==
    orders' = [orders EXCEPT ![i] =
        [@ EXCEPT !.status = status,
                  !.payment_notes = IF payment_notes # NULL THEN payment_notes ELSE @,
                  !.payment_confirmed_at = IF status = "paid" THEN "utcnow" ELSE @]]

\* PUT /admin/orders/{order_id}/status
admin_update_order_status ==
    /\ \E order_id \in OrderIds, status \in RequestedStatuses,
          payment_notes \in RequestedNotes :
          IF status \notin valid_statuses
          THEN /\ reply' = [endpoint |-> "admin", order_id |-> order_id,
                            status |-> status, status_code |-> 400]
               /\ UNCHANGED orders
          ELSE IF get(order_id) = {}
          THEN /\ reply' = [endpoint |-> "admin", order_id |-> order_id,
                            status |-> status, status_code |-> 404]
               /\ UNCHANGED orders
          ELSE /\ update_status(CHOOSE i \in get(order_id) : TRUE, status, payment_notes)
               /\ reply' = [endpoint |-> "admin", order_id |-> order_id,
                            status |-> status, status_code |-> 200]
    /\ UNCHANGED <<products, ledger, orderSeq, adminOps, pc, cart, idx, session, txn, tasks>>
    /\ UNCHANGED <<form, detail>>

\* PUT /orders/{order_id}/status: the endpoint calls
\* crud_order.update_order_status, which CRUDOrder does not define, so every
\* request ends in an AttributeError and a 500
order_update_order_status ==
    /\ \E order_id \in OrderIds, status \in RequestedStatuses :
          reply' = [endpoint |-> "orders", order_id |-> order_id,
                    status |-> status, status_code |-> 500]
    /\ UNCHANGED <<products, orders, ledger, orderSeq, adminOps, pc, cart, idx,
                   session, txn, tasks>>
    /\ UNCHANGED <<form, detail>>

\* a price edit that reprices the items already ordered
update_product_price_repricing ==
    /\ adminOps < MaxAdminUpdates
    /\ \E p \in DOMAIN products :
          /\ products' = [products EXCEPT ![p].price = RaisedPrice]
          /\ orders' = [i \in 1..Len(orders) |->
                [orders[i] EXCEPT !.items = [k \in 1..Len(orders[i].items) |->
                    IF orders[i].items[k].product_id = p
                    THEN [orders[i].items[k] EXCEPT !.product_price = RaisedPrice]
                    ELSE orders[i].items[k]]]]
    /\ adminOps' = adminOps + 1
    /\ UNCHANGED <<ledger, orderSeq, pc, cart, idx, session, txn, tasks, reply>>
    /\ UNCHANGED <<form, detail>>

\* PUT /admin/products/{product_id} with a price field
update_product_price ==
    /\ adminOps < MaxAdminUpdates
    /\ \E p \in DOMAIN products :
          products' = [products EXCEPT ![p].price = RaisedPrice]
    /\ adminOps' = adminOps + 1
    /\ UNCHANGED <<orders, ledger, orderSeq, pc, cart, idx, session, txn, tasks, reply>>
    /\ UNCHANGED <<form, detail>>

\* committed OrderItem or InventoryLedger rows hold this product id
Referenced(p) ==
    \/ \E i \in 1..Len(orders) : \E k \in 1..Len(orders[i].items) :
          orders[i].items[k].product_id = p
    \/ \E i \in 1..Len(ledger) : ledger[i].product_id = p

\* a delete that takes the ledger entries of the product with it
delete_product_cascading ==
    /\ \E p \in DOMAIN products :
          /\ products' = [q \in DOMAIN products \ {p} |-> products[q]]
          /\ ledger' = SelectSeq(ledger, LAMBDA row : row.product_id # p)
    /\ UNCHANGED <<orders, orderSeq, adminOps, pc, cart, idx, session, txn,
                   tasks, reply>>
    /\ UNCHANGED <<form, detail>>

\* DELETE /admin/products/{product_id}: db.delete(product); db.commit().
\* No relationship cascades from Product, and the foreign keys to products.id
\* carry no ON DELETE rule: PostgreSQL refuses to delete a referenced row
\* (IntegrityError, 500), SQLite as the engine is created here does not
\* enforce foreign keys and deletes it
delete_product ==
    /\ \E p \in DOMAIN products, foreign_keys \in BOOLEAN :
          IF foreign_keys /\ Referenced(p)
          THEN UNCHANGED products
          ELSE products' = [q \in DOMAIN products \ {p} |-> products[q]]
    /\ UNCHANGED <<orders, ledger, orderSeq, adminOps, pc, cart, idx, session, txn,
                   tasks, reply>>
    /\ UNCHANGED <<form, detail>>

\* ------------------------------------------------------------ specification
Init ==
    /\ products = << >>
    /\ orders = << >>
    /\ ledger = << >>
    /\ orderSeq = 0
    /\ adminOps = 0
    /\ pc = [r \in Requests |-> "idle"]
    /\ cart = [r \in Requests |-> << >>]
    /\ idx = [r \in Requests |-> 1]
    /\ session = [r \in Requests |-> << >>]
    /\ txn = [r \in Requests |-> EmptyTxn]
    /\ tasks = [r \in Requests |-> "none"]
    /\ reply = NoReply
    /\ form = [r \in Requests |-> BillingOmitted]
    /\ detail = [r \in Requests |-> NoError]

Next ==
    \/ create_product
    \/ update_product
    \/ \E r \in Requests : create_order(r)
    \/ \E r \in Requests : validate_items(r)
    \/ \E r \in Requests : generate_order_reference(r)
    \/ \E r \in Requests : flush_order(r)
    \/ \E r \in Requests : process_item(r)
    \/ \E r \in Requests : commit_order(r)
    \/ \E r \in Requests : abort_order(r)

Spec == Init /\ [][Next]_vars

\* order creation with its background notification
NextNotify ==
    \/ Next
    \/ \E r \in Requests : send_admin_notification_email(r)

SpecNotify == Init /\ [][NextNotify]_vars

\* the empty database, the requests carrying any billing fields
InitForm ==
    /\ products = << >>
    /\ orders = << >>
    /\ ledger = << >>
    /\ orderSeq = 0
    /\ adminOps = 0
    /\ pc = [r \in Requests |-> "idle"]
    /\ cart = [r \in Requests |-> << >>]
    /\ idx = [r \in Requests |-> 1]
    /\ session = [r \in Requests |-> << >>]
    /\ txn = [r \in Requests |-> EmptyTxn]
    /\ tasks = [r \in Requests |-> "none"]
    /\ reply = NoReply
    /\ form \in { [r \in Requests |-> f] : f \in OrderForms }
    /\ detail = [r \in Requests |-> NoError]

\* a database holding no order, with or without its product
InitValidate ==
    /\ \/ /\ products = << >>
          /\ ledger = << >>
       \/ \E stock \in 0..MaxStock :
             /\ products = (1 :> [stock_quantity |-> stock, price |-> CatalogPrice])
             /\ ledger = << [product_id |-> 1, change_type |-> "InitialStock",
                             quantity_change |-> stock, new_quantity |-> stock,
                             order_id |-> 0] >>
    /\ orders = << >>
    /\ orderSeq = 0
    /\ adminOps = 0
    /\ pc = [r \in Requests |-> "idle"]
    /\ cart = [r \in Requests |-> << >>]
    /\ idx = [r \in Requests |-> 1]
    /\ session = [r \in Requests |-> << >>]
    /\ txn = [r \in Requests |-> EmptyTxn]
    /\ tasks = [r \in Requests |-> "none"]
    /\ reply = NoReply
    /\ form = [r \in Requests |-> BillingOmitted]
    /\ detail = [r \in Requests |-> NoError]

\* no order-creation request has arrived yet
NoneArrived == \A q \in Requests : pc[q] = "idle"

\* the back office beside one order creation
NextAdmin ==
    \/ create_product
    \/ update_product
    \/ \E r \in Requests : NoneArrived /\ create_order(r)
    \/ \E r \in Requests : validate_items(r)
    \/ \E r \in Requests : generate_order_reference(r)
    \/ \E r \in Requests : flush_order(r)
    \/ \E r \in Requests : process_item(r)
    \/ \E r \in Requests : commit_order(r)
    \/ \E r \in Requests : abort_order(r)
    \/ admin_update_order_status
    \/ order_update_order_status
    \/ update_product_price
    \/ delete_product

SpecAdmin == Init /\ [][NextAdmin]_vars

\* one order creation with nothing running beside it
NextSolo ==
    \/ create_product
    \/ \E r \in Requests : NoneArrived /\ create_order(r)
    \/ \E r \in Requests : validate_items(r)
    \/ \E r \in Requests : generate_order_reference(r)
    \/ \E r \in Requests : flush_order(r)
    \/ \E r \in Requests : process_item(r)
    \/ \E r \in Requests : commit_order(r)
    \/ \E r \in Requests : abort_order(r)

SpecSolo == InitForm /\ [][NextSolo]_vars

\* calls of validate_items on a database nothing else touches
NextValidate ==
    \/ \E r \in Requests : create_order(r)
    \/ \E r \in Requests : validate_items(r)

SpecValidate == InitValidate /\ [][NextValidate]_vars

\* order creation with the loop of _generate_order_reference taken one
\* statement at a time
NextLive ==
    \/ create_product
    \/ \E r \in Requests : create_order(r)
    \/ \E r \in Requests : validate_items(r)
    \/ \E r \in Requests : draw_order_reference(r)
    \/ \E r \in Requests : check_order_reference(r)
    \/ \E r \in Requests : flush_order(r)
    \/ \E r \in Requests : process_item(r)
    \/ \E r \in Requests : commit_order(r)
    \/ \E r \in Requests : abort_order(r)

\* the thread of a request that has work to do keeps running
RequestStep(r) ==
    \/ validate_items(r)
    \/ draw_order_reference(r)
    \/ check_order_reference(r)
    \/ flush_order(r)
    \/ process_item(r)
    \/ commit_order(r)

SpecLive == Init /\ [][NextLive]_vars /\ \A r \in Requests : WF_vars(RequestStep(r))

TypeOK ==
    /\ DOMAIN products \subseteq ProductIds
    /\ orderSeq \in 0..NumRequests
    /\ \A r \in Requests : pc[r] \in {"idle", "validate", "genref", "flush",
                                      "checkref", "items", "commit", "done", "rejected",
                                      "failed"}

\* ------------------------------------------------------------------- claims
Terminal(r) == pc[r] \in {"done", "rejected", "failed"}

\* C1: every product's stock_quantity is >= 0 in every reachable state
C1_StockNeverNegative ==
    \A p \in DOMAIN products : products[p].stock_quantity >= 0

\* the stock a product was created with
InitialStockOf(p) ==
    LET i == CHOOSE j \in 1..Len(ledger) :
                 ledger[j].product_id = p /\ ledger[j].change_type = "InitialStock"
    IN ledger[i].quantity_change

\* the request sent one honest cart line, for product p
SingleLineOn(r, p) ==
    /\ Len(cart[r]) = 1
    /\ cart[r][1].product_id = p
    /\ cart[r][1].product_price = products[p].price

\* two requests for product p, each fitting the initial stock, not both
CompetingPair(r1, r2, p) ==
    /\ r1 # r2
    /\ adminOps = 0
    /\ Terminal(r1) /\ Terminal(r2)
    /\ SingleLineOn(r1, p) /\ SingleLineOn(r2, p)
    /\ cart[r1][1].quantity <= InitialStockOf(p)
    /\ cart[r2][1].quantity <= InitialStockOf(p)
    /\ cart[r1][1].quantity + cart[r2][1].quantity > InitialStockOf(p)

\* C2: of two requests for the same product whose quantities each fit the
\* stock but together exceed it, the two never both commit, and when one has
\* committed the stock is the initial stock minus its quantity
C2_ExactlyOneCommits ==
    \A p \in DOMAIN products : \A r1, r2 \in Requests :
        CompetingPair(r1, r2, p) =>
            /\ ~(pc[r1] = "done" /\ pc[r2] = "done")
            /\ (pc[r1] = "done" /\ pc[r2] # "done") =>
                  products[p].stock_quantity = InitialStockOf(p) - cart[r1][1].quantity

\* rows of the attempt of request r that the tables hold
PersistedRowsOf(r) ==
    { i \in 1..Len(orders) : orders[i].id = txn[r].order_id }
    \cup { Len(orders) + j : j \in { k \in 1..Len(ledger) : ledger[k].order_id = txn[r].order_id } }

C5_SubtotalIsPriceTimesQuantity ==
    \A i \in 1..Len(orders) : \A k \in 1..Len(orders[i].items) :
        orders[i].items[k].subtotal =
            orders[i].items[k].product_price * orders[i].items[k].quantity

RECURSIVE SumPriceTimesQuantity(_)
SumPriceTimesQuantity(items) ==
    IF items = << >> THEN 0
    ELSE Head(items).product_price * Head(items).quantity
         + SumPriceTimesQuantity(Tail(items))

\* the lines of an order without the subtotals the client sent
WithoutSubtotals(items) ==
    [k \in 1..Len(items) |-> [items[k] EXCEPT !.subtotal = 0]]

\* C6: the stored total_amount is the sum of quantity times price over the
\* lines, and two orders that differ only in the client's subtotals store the
\* same total_amount
C6_TotalIgnoresClientSubtotal ==
    /\ \A i \in 1..Len(orders) :
          orders[i].total_amount = SumPriceTimesQuantity(orders[i].items)
    /\ \A i, j \in 1..Len(orders) :
          WithoutSubtotals(orders[i].items) = WithoutSubtotals(orders[j].items)
              => orders[i].total_amount = orders[j].total_amount

\* C7: no two persisted orders share an order_reference
C7_ReferencesUnique ==
    \A i, j \in 1..Len(orders) :
        i # j => orders[i].order_reference # orders[j].order_reference

\* a request drew the reference a concurrent request then committed, and its
\* INSERT was refused
C7_Witness ==
    \E r \in Requests :
        /\ pc[r] = "failed" /\ txn[r].order_id = 0
        /\ ReferenceExists(txn[r].order_reference)

\* the request decrements a product in this step
Decrements(r, p) ==
    /\ pc[r] = "items"
    /\ cart[r][idx[r]].product_id = p
    /\ p \in DOMAIN session'[r]
    /\ session'[r][p].stock_quantity # Load(r, p)[p].stock_quantity

\* C8: every stock decrement of an order creation comes with exactly one new
\* Sale entry for that order and product, with quantity_change = -quantity and
\* new_quantity = the stock right after the decrement; the commit inserts
\* these entries, each once, and leaves every decremented product at the
\* new_quantity of its last entry
C8_DecrementHasItsSaleEntry ==
    [][\A r \in Requests :
         /\ \A p \in ProductIds : Decrements(r, p) =>
              txn'[r].ledger = Append(txn[r].ledger,
                  [product_id |-> p, change_type |-> "Sale",
                   quantity_change |-> -cart[r][idx[r]].quantity,
                   new_quantity |-> session'[r][p].stock_quantity,
                   order_id |-> txn[r].order_id])
         /\ (pc[r] = "items" /\ pc'[r] # "failed"
                /\ \A p \in ProductIds : ~Decrements(r, p)) =>
              txn'[r].ledger = txn[r].ledger
         /\ (pc[r] = "commit" /\ pc'[r] = "done") =>
              /\ ledger' = ledger \o txn[r].ledger
              /\ \A k \in 1..Len(txn[r].ledger) :
                    (\A m \in (k + 1)..Len(txn[r].ledger) :
                        txn[r].ledger[m].product_id # txn[r].ledger[k].product_id)
                    => products'[txn[r].ledger[k].product_id].stock_quantity
                         = txn[r].ledger[k].new_quantity]_vars

\* scenario A: an order for the whole stock left the product at 0 with one
\* Sale entry of -MaxStock and new_quantity 0
C8_Witness ==
    \E i \in 1..Len(orders) : \E p \in DOMAIN products :
        /\ Len(orders[i].items) = 1
        /\ orders[i].items[1].product_id = p
        /\ orders[i].items[1].quantity = InitialStockOf(p)
        /\ InitialStockOf(p) = MaxQty
        /\ products[p].stock_quantity = 0
        /\ Cardinality({ k \in 1..Len(ledger) :
                 ledger[k] = [product_id |-> p, change_type |-> "Sale",
                              quantity_change |-> -MaxQty, new_quantity |-> 0,
                              order_id |-> orders[i].id] }) = 1

\* the ledger entries of product p, in creation order
LedgerOf(p) == SelectSeq(ledger, LAMBDA row : row.product_id = p)

\* C9: with order creations only, the ledger entries of each product chain:
\* new_quantity[n] = new_quantity[n-1] + quantity_change[n]
C9_LedgerChain ==
    adminOps = 0 =>
        \A p \in DOMAIN products : \A n \in 2..Len(LedgerOf(p)) :
            LedgerOf(p)[n].new_quantity =
                LedgerOf(p)[n - 1].new_quantity + LedgerOf(p)[n].quantity_change

\* C10: the quantity_change values of a product's ledger entries sum to its
\* current stock_quantity
C10_LedgerSumIsStock ==
    \A p \in DOMAIN products :
        SumChanges(ledger, p) = products[p].stock_quantity

\* C11: the inventory ledger is append-only: every step keeps every existing
\* InventoryLedger row, at its place and with its fields as written
C11_LedgerAppendOnly ==
    [][/\ Len(ledger') >= Len(ledger)
       /\ \A i \in 1..Len(ledger) : ledger'[i] = ledger[i]]_vars

\* an order of two lines was committed, its status was updated and the
\* product was then deleted: the three ledger entries are still there
C11_Witness ==
    /\ Len(ledger) = 3
    /\ DOMAIN products = {}
    /\ \E i \in 1..Len(orders) : orders[i].status # "pending"

\* the request whose loop is at this cart line takes a step
Steps(r) == pc'[r] # pc[r] \/ idx'[r] # idx[r]

\* the cart line fails against the committed product row: unknown product,
\* asserted price off by more than the tolerance, or, for a product the
\* request reads for the first time, quantity above the stock
FailsValidation(r, item) ==
    \/ item.product_id \notin DOMAIN products
    \/ Abs(products[item.product_id].price - item.product_price) > PriceTolerance
    \/ /\ item.product_id \notin DOMAIN session[r]
       /\ item.quantity > products[item.product_id].stock_quantity

StatusGraph ==
    { <<"pending", "paid">>, <<"pending", "cancelled">>, <<"paid", "shipped">>,
      <<"paid", "cancelled">>, <<"shipped", "delivered">> }

\* C13: the status of an order only moves along pending -> {paid, cancelled},
\* paid -> {shipped, cancelled}, shipped -> {delivered}; cancelled and
\* delivered orders keep their status and no update moves an order backwards
C13_StatusFollowsGraph ==
    [][\A i \in 1..Len(orders) :
         \/ orders'[i].status = orders[i].status
         \/ <<orders[i].status, orders'[i].status>> \in StatusGraph]_vars

\* C14: payment_confirmed_at is null when the order is created, is written
\* only by a successful status update of that order to paid, and once
\* non-null is never null again
C14_PaymentStampOneWay ==
    [][/\ \A i \in 1..Len(orders) :
            /\ orders'[i].payment_confirmed_at # orders[i].payment_confirmed_at =>
                  /\ reply'.status = "paid" /\ reply'.status_code = 200
                  /\ reply'.order_id = orders[i].id
            /\ orders[i].payment_confirmed_at # NULL =>
                  orders'[i].payment_confirmed_at # NULL
       /\ \A i \in (Len(orders) + 1)..Len(orders') :
            orders'[i].payment_confirmed_at = NULL]_vars

\* an order was stamped by an update to paid and later set to another status:
\* the stamp is still there
C14_Witness ==
    \E i \in 1..Len(orders) :
        /\ orders[i].payment_confirmed_at # NULL
        /\ orders[i].status = "pending"

\* C15: a status update naming an unknown order is answered 404, one carrying
\* a status outside the five values is answered 400, and in both cases no
\* order's status, payment_confirmed_at or payment_notes changes
C15_UnknownOrInvalidStatusUpdate ==
    [][reply' # reply =>
         LET known == get(reply'.order_id) # {}
             valid == reply'.status \in valid_statuses
         IN (~known \/ ~valid) =>
               /\ reply'.status_code \in {400, 404}
               /\ reply'.status_code = 404 => ~known
               /\ reply'.status_code = 400 => ~valid
               /\ orders' = orders]_vars

\* C16: the OrderItems of a committed order never change: every step keeps
\* every order at its place with its id and its items
C16_OrderItemsImmutable ==
    [][\A i \in 1..Len(orders) :
         /\ i <= Len(orders')
         /\ orders'[i].id = orders[i].id
         /\ orders'[i].items = orders[i].items]_vars

\* the order went through a status update, and the price of its product was
\* raised after it was committed: the item still carries the price it was
\* ordered at
C16_Witness ==
    \E i \in 1..Len(orders) : \E p \in DOMAIN products :
        /\ orders[i].status = "delivered"
        /\ orders[i].items[1].product_id = p
        /\ orders[i].items[1].product_price = CatalogPrice
        /\ products[p].price = RaisedPrice

\* C17: a product referenced by an OrderItem is never deleted: every
\* OrderItem's product_id is the id of an existing product
C17_ReferencedProductKept ==
    \A i \in 1..Len(orders) : \A k \in 1..Len(orders[i].items) :
        orders[i].items[k].product_id \in DOMAIN products

\* the order of request r is in the orders table
Committed(r) == \E i \in 1..Len(orders) : orders[i].id = txn[r].order_id

\* C18: the admin notification of a request is dispatched only once its order
\* is committed, never for a rejected or failed request, and the run of the
\* notification, failing or not, changes neither the orders, the products,
\* the ledger nor the outcome of any request
C18_NotificationAfterCommit ==
    /\ [](\A r \in Requests :
            tasks[r] # "none" => (pc[r] = "done" /\ txn[r].order_id # 0 /\ Committed(r)))
    /\ [][\A r \in Requests :
            (tasks[r] = "queued" /\ tasks'[r] # "queued") =>
                /\ products' = products /\ orders' = orders /\ ledger' = ledger
                /\ pc' = pc]_vars

\* one notification failed and one request ended without an order
C18_Witness ==
    \E r1, r2 \in Requests :
        /\ tasks[r1] = "failed" /\ pc[r1] = "done"
        /\ pc[r2] \in {"rejected", "failed"} /\ tasks[r2] = "none"

\* the cart of the request has a line of zero or negative quantity
HasNonPositiveLine(r) == \E k \in 1..Len(cart[r]) : cart[r][k].quantity <= 0

\* C19: every persisted OrderItem has quantity > 0: a request whose cart has
\* a line of zero or negative quantity never commits an order, and no commit
\* of such a request raises a product's stock
C19_QuantitiesPositive ==
    /\ [](/\ \A i \in 1..Len(orders) : \A k \in 1..Len(orders[i].items) :
                orders[i].items[k].quantity > 0
          /\ \A r \in Requests : HasNonPositiveLine(r) => pc[r] # "done")
    /\ [][\A r \in Requests :
            (HasNonPositiveLine(r) /\ pc[r] = "commit" /\ pc'[r] = "done") =>
                \A p \in DOMAIN products :
                    products'[p].stock_quantity <= products[p].stock_quantity]_vars

\* C20: create_with_owner re-checks the stock when it decrements: a request
\* whose cart line asks for more than the committed stock of its product
\* fails at that line instead of decrementing
C20_StockRecheckedAtDecrement ==
    [][\A r \in Requests :
         (/\ pc[r] = "items" /\ Steps(r)
          /\ cart[r][idx[r]].product_id \in DOMAIN products
          /\ cart[r][idx[r]].quantity >
                products[cart[r][idx[r]].product_id].stock_quantity)
         => pc'[r] = "failed"]_vars

\* C21: validate_items takes the cart lines in submitted order and stops at
\* the first failing one, reporting for it the earliest failing check of
\* product exists, price matches, stock suffices; it returns no error only
\* when the last line has passed like every line before it
C21_FirstErrorInOrder ==
    [][\A r \in Requests :
         /\ (pc[r] = "idle" /\ pc'[r] = "validate") => idx'[r] = 1
         /\ (pc[r] = "validate" /\ Steps(r)) =>
              LET k == idx[r]
                  item == cart[r][k]
                  p == item.product_id
                  row == IF p \in DOMAIN session[r] THEN session[r][p] ELSE products[p]
                  expected ==
                      IF p \notin DOMAIN products THEN "not_found"
                      ELSE IF Abs(row.price - item.product_price) > PriceTolerance
                           THEN "price"
                      ELSE IF row.stock_quantity < item.quantity THEN "stock"
                      ELSE "ok"
              IN /\ expected # "ok" =>
                       /\ pc'[r] = "rejected"
                       /\ detail'[r] = [line |-> k, error |-> expected]
                 /\ expected = "ok" =>
                       /\ detail'[r] = NoError
                       /\ IF k = Len(cart[r]) THEN pc'[r] = "genref"
                          ELSE pc'[r] = "validate" /\ idx'[r] = k + 1]_vars

\* one cart was refused at its second line, its first having passed, and one
\* whose line fails both the price and the stock check was refused for the
\* price
C21_Witness ==
    \E r1, r2 \in Requests :
        /\ pc[r1] = "rejected" /\ detail[r1] = [line |-> 2, error |-> "stock"]
        /\ pc[r2] = "rejected" /\ detail[r2] = [line |-> 1, error |-> "price"]
        /\ cart[r2][1].product_id \in DOMAIN products
        /\ cart[r2][1].quantity > products[cart[r2][1].product_id].stock_quantity

\* C22: order-reference generation always terminates: a request that enters
\* the generation loop eventually leaves it, with a reference or with an error
C22_ReferenceGenerationTerminates ==
    \A r \in Requests : (pc[r] = "genref") ~> (pc[r] \notin {"genref", "checkref"})

\* C23: every OrderItem of every committed order has a Sale ledger row of the
\* same order and product that records its decrement
C23_EveryItemLedgered ==
    \A i \in 1..Len(orders) : \A k \in 1..Len(orders[i].items) :
        \E j \in 1..Len(ledger) :
            /\ ledger[j].change_type = "Sale"
            /\ ledger[j].order_id = orders[i].id
            /\ ledger[j].product_id = orders[i].items[k].product_id
            /\ ledger[j].quantity_change = -orders[i].items[k].quantity

\* C24: an order is created with status pending, a null payment_confirmed_at
\* and the default payment method, and each billing field it stores is the
\* one the request gave, or the shipping field when the request left it out
C24_NewOrderDefaults ==
    [][\A i \in (Len(orders) + 1)..Len(orders') :
         \E r \in Requests :
            /\ pc[r] = "commit" /\ pc'[r] = "done"
            /\ orders'[i].status = "pending"
            /\ orders'[i].payment_confirmed_at = NULL
            /\ orders'[i].payment_method = "wave_qr"
            /\ form[r].billing_address = NULL =>
                  orders'[i].billing_address = orders'[i].shipping_address
            /\ form[r].billing_city = NULL =>
                  orders'[i].billing_city = orders'[i].shipping_city
            /\ form[r].billing_country = NULL =>
                  orders'[i].billing_country = orders'[i].shipping_country]_vars

\* an order was created from a request that gave a billing address and left
\* out the billing city and country
C24_Witness ==
    \E i \in 1..Len(orders) :
        /\ orders[i].billing_address = "billing_address"
        /\ orders[i].billing_city = "shipping_city"
        /\ orders[i].billing_country = "shipping_country"
        /\ \E r \in Requests : form[r].billing_city = NULL /\ pc[r] = "done"

Validated(r) == pc[r] \in {"genref", "rejected"}

\* C26: validate_items is a read: its steps leave products, orders and ledger
\* as they were, and two calls on the same cart with nothing changed in
\* between return the same result
C26_ValidationIsARead ==
    /\ [](\A r1, r2 \in Requests :
            (Validated(r1) /\ Validated(r2) /\ cart[r1] = cart[r2]) =>
                (pc[r1] = pc[r2] /\ detail[r1] = detail[r2]))
    /\ [][\A r \in Requests : (pc[r] = "validate" /\ Steps(r)) =>
            (products' = products /\ orders' = orders /\ ledger' = ledger)]_vars

\* two calls on the same cart of two lines were both accepted, and the stock
\* covers the first line only once
C26_Witness ==
    \E r1, r2 \in Requests :
        /\ r1 # r2 /\ cart[r1] = cart[r2] /\ Len(cart[r1]) = 2
        /\ pc[r1] = "genref" /\ pc[r2] = "genref"
        /\ 2 * cart[r1][1].quantity > products[cart[r1][1].product_id].stock_quantity

\* C27: with nothing running beside it, an order creation whose cart
\* validate_items accepted leaves no product with a stock below zero
C27_AcceptedCartKeepsStock ==
    \A r \in Requests :
        pc[r] = "done" => \A p \in DOMAIN products : products[p].stock_quantity >= 0

RECURSIVE SumQuantity(_, _)
SumQuantity(items, p) ==
    IF items = << >> THEN 0
    ELSE (IF Head(items).product_id = p THEN Head(items).quantity ELSE 0)
         + SumQuantity(Tail(items), p)

RECURSIVE Sold(_, _)
Sold(rows, p) ==
    IF rows = << >> THEN 0
    ELSE SumQuantity(Head(rows).items, p) + Sold(Tail(rows), p)

\* C28: with no admin stock edit, the initial stock of a product minus the
\* quantities of the OrderItems of all committed orders for it is its current
\* stock_quantity
C28_StockConserved ==
    adminOps = 0 =>
        \A p \in DOMAIN products :
            InitialStockOf(p) - Sold(orders, p) = products[p].stock_quantity

\* the step changes the status, payment_notes or payment_confirmed_at of an
\* order
StatusUpdated ==
    \E i \in 1..Len(orders) :
        \/ orders'[i].status # orders[i].status
        \/ orders'[i].payment_notes # orders[i].payment_notes
        \/ orders'[i].payment_confirmed_at # orders[i].payment_confirmed_at

\* C29: a status update, to cancelled too, changes only the status,
\* payment_notes and payment_confirmed_at of the order: the stock of every
\* product, the ledger and the items, total_amount and order_reference of
\* every order stay as they were
C29_StatusUpdateFrame ==
    [][StatusUpdated =>
         /\ products' = products
         /\ ledger' = ledger
         /\ Len(orders') = Len(orders)
         /\ \A i \in 1..Len(orders) :
               /\ orders'[i].items = orders[i].items
               /\ orders'[i].total_amount = orders[i].total_amount
               /\ orders'[i].order_reference = orders[i].order_reference
               /\ orders'[i].id = orders[i].id]_vars

\* an order was cancelled and the units it took are still out of the stock
C29_Witness ==
    \E i \in 1..Len(orders) : \E p \in DOMAIN products :
        /\ orders[i].status = "cancelled"
        /\ orders[i].items[1].product_id = p
        /\ orders[i].items[1].quantity = MaxQty
        /\ adminOps = 0
        /\ products[p].stock_quantity = InitialStockOf(p) - MaxQty

\* C30: an order whose status is paid has a non-null payment_confirmed_at
C30_PaidIsStamped ==
    \A i \in 1..Len(orders) :
        orders[i].status = "paid" => orders[i].payment_confirmed_at # NULL

\* an order is paid and stamped
C30_Witness ==
    \E i \in 1..Len(orders) :
        orders[i].status = "paid" /\ orders[i].payment_confirmed_at = "utcnow"
====
